---------------------------- MODULE Spec2Model ----------------------------
(***************************************************************************)
(* A model of ExampleNode (src/example_control_node.py): a node of the     *)
(* griptape_nodes workflow engine with four valued parameters, a button    *)
(* handler, a process() callback and a pre-run validation hook.            *)
(*                                                                         *)
(* Python values are tagged records: None, str (a sequence of one-character*)
(* strings), int, and float (a rational num/den).  A dict is a function    *)
(* whose domain is the set of keys written so far.                         *)
(***************************************************************************)
EXTENDS Integers, Sequences, FiniteSets, TLC

VARIABLES
    name,                     \* self.name, the constructor's argument
    parameter_values,         \* what get_parameter_value(...) reads
    parameter_output_values,  \* self.parameter_output_values
    last_call,                \* the operation that ran most recently
    returned,                 \* what that operation returned or raised
    clicked                   \* whether the button handler has ever run

vars == <<name, parameter_values, parameter_output_values, last_call, returned,
          clicked>>

---------------------------------------------------------------------------
(* Bounds of the model.                                                    *)

\* Longest free_text the full life cycle (Spec) enters.
MaxShortText == 1
\* Longest free_text the word-reversal life cycle (SpecText) enters.
MaxText == 5
\* Largest integer_slider value the full life cycle (Spec) enters.
MaxSliderInput == 1
\* datetime.now() is one of the seconds 0..MaxClock after 14:30:00.
MaxClock == 1
\* random.random() is k/RandomScale for some k in 0..RandomScale-1 ...
RandomScale == 100000
\* ... of which the life cycles draw DrawSteps evenly spaced ones and the
\* largest,
DrawSteps == 1
\* and the life cycle of the slider (SpecSlider) FineDrawSteps and the largest.
FineDrawSteps == 8

---------------------------------------------------------------------------
(* Python values.                                                          *)

None == [type |-> "NoneType"]
StrVal(s) == [type |-> "str", val |-> s]
IntVal(n) == [type |-> "int", val |-> n]
FloatVal(n, d) == [type |-> "float", num |-> n, den |-> d]
ListVal(items) == [type |-> "list", items |-> items]
TypeError == [type |-> "TypeError"]

\* The mutant of Truthy: only None is false (an `is None` test).
TruthyNotNone(v) == v.type # "NoneType"

\* bool(v): None, "" and 0 are false.
Truthy(v) ==
    CASE v.type = "NoneType" -> FALSE
      [] v.type = "str" -> v.val # <<>>
      [] v.type = "int" -> v.val # 0
      [] v.type = "list" -> v.items # <<>>
      [] OTHER -> TRUE

\* The mutant of Or: the fallback is never taken.
OrNoFallback(x, d) == x

\* x or d
Or(x, d) == IF Truthy(x) THEN x ELSE d

\* The characters str.split() treats as separators, of those the model enters.
Whitespace == {" ", "\n"}

\* The characters of the texts the model enters.
Alphabet == {"a"} \cup Whitespace

\* str(v), as a sequence of characters.
PyStr(v) ==
    CASE v.type = "str" -> v.val
      [] v.type = "NoneType" -> <<"N", "o", "n", "e">>

RECURSIVE SplitFrom(_, _, _, _)
\* str.split() from position i, with the word being read and the words read.
SplitFrom(s, i, word, words) ==
    IF i > Len(s)
    THEN IF word = <<>> THEN words ELSE Append(words, word)
    ELSE IF s[i] \in Whitespace
         THEN SplitFrom(s, i + 1, <<>>,
                        IF word = <<>> THEN words ELSE Append(words, word))
         ELSE SplitFrom(s, i + 1, Append(word, s[i]), words)

\* The mutant of Split: str.split(" "), which keeps empty words and splits on
\* the space alone.
RECURSIVE SplitOnSpaceFrom(_, _, _, _)
SplitOnSpaceFrom(s, i, word, words) ==
    IF i > Len(s)
    THEN Append(words, word)
    ELSE IF s[i] = " "
         THEN SplitOnSpaceFrom(s, i + 1, <<>>, Append(words, word))
         ELSE SplitOnSpaceFrom(s, i + 1, Append(word, s[i]), words)

SplitOnSpace(s) == SplitOnSpaceFrom(s, 1, <<>>, <<>>)

\* s.split()
Split(s) == SplitFrom(s, 1, <<>>, <<>>)

\* reversed(seq)
Reversed(seq) == [i \in 1..Len(seq) |-> seq[Len(seq) + 1 - i]]

RECURSIVE Join(_, _)
\* sep.join(words)
Join(sep, words) ==
    IF words = <<>> THEN <<>>
    ELSE IF Len(words) = 1 THEN words[1]
    ELSE words[1] \o sep \o Join(sep, Tail(words))

\* float(v) is defined on numbers; float(None) raises TypeError.
CanFloat(v) == v.type \in {"int", "float"}

\* float(v) of an int.
PyFloat(v) == FloatVal(v.val, 1)

\* Slider(min_val=1, max_val=10)
SliderMin == 1
SliderMax == 10

\* The mutant of Uniform: the upper end is the slider's maximum, not b.
UniformOfMax(a, b, k) ==
    FloatVal(a.num * RandomScale + (SliderMax - a.num) * k, RandomScale)

\* random.uniform(a, b) == a + (b - a) * random.random(), for floats a and b
\* of denominator 1 and random.random() == k/RandomScale.
Uniform(a, b, k) == FloatVal(a.num * RandomScale + (b.num - a.num) * k, RandomScale)

\* round(x, 3): to the nearest thousandth, a tie to the even one.
Round3(x) ==
    LET n == x.num * 1000
        q == n \div x.den
        r == n % x.den
    IN  FloatVal(IF 2 * r > x.den THEN q + 1
              ELSE IF 2 * r = x.den THEN q + (q % 2)
              ELSE q,
              1000)

\* The values random.random() takes in the model, as numerators over
\* RandomScale: n evenly spaced ones from 0 on, and the largest.
RandomDraws(n) ==
    {(i * RandomScale) \div n : i \in 0..(n - 1)} \cup {RandomScale - 1}

\* The mutant of DictSet: the dict is replaced by one holding the key alone.
DictReplace(d, key, value) == [k \in {key} |-> value]

\* d[key] = value
DictSet(d, key, value) ==
    [k \in DOMAIN d \cup {key} |-> IF k = key THEN value ELSE d[k]]

---------------------------------------------------------------------------
(* The parameters the constructor declares.                                *)

\* The mutant of DefaultFreeText: the default is the empty string.
EmptyDefaultFreeText == StrVal(<<>>)

DefaultFreeText ==
    StrVal(<<"h", "e", "l", "l", "o", " ", "f", "r", "o", "m", " ", "t", "h", "e",
          " ", "e", "x", "a", "m", "p", "l", "e", " ", "n", "o", "d", "e">>)

\* Options(choices=["yes", "no", "maybe"])
Choices == {StrVal(<<"y", "e", "s">>), StrVal(<<"n", "o">>),
            StrVal(<<"m", "a", "y", "b", "e">>)}

DefaultDropdown == StrVal(<<"y", "e", "s">>)

DefaultIntegerSlider == IntVal(5)

DefaultDatetimeDisplay ==
    StrVal(<<"C", "l", "i", "c", "k", " ", "b", "u", "t", "t", "o", "n", " ",
          "t", "o", " ", "u", "p", "d", "a", "t", "e">>)

\* The keys process() writes in parameter_output_values.
OutputKeys == {"reversed_text", "dropdown", "random_float"}

\* The names under which the engine constructs the node.
NodeNames == {"ExampleNode", "ExampleNode_1"}

\* __init__: every valued parameter reads as its default, no output is written.
Init ==
    /\ name \in NodeNames
    /\ parameter_values =
           [free_text |-> DefaultFreeText,
            dropdown |-> DefaultDropdown,
            integer_slider |-> DefaultIntegerSlider,
            datetime_display |-> DefaultDatetimeDisplay]
    /\ parameter_output_values = [k \in {} |-> None]
    /\ last_call = "__init__"
    /\ returned = None
    /\ clicked = FALSE

---------------------------------------------------------------------------
(* The values the engine (the UI or an upstream connection) enters.        *)

\* The strings over Alphabet of length n.
RECURSIVE StringsOfLen(_)
StringsOfLen(n) ==
    IF n = 0 THEN {<<>>}
    ELSE {Append(s, c) : s \in StringsOfLen(n - 1), c \in Alphabet}

\* None and every string of at most n characters.
FreeTextInputs(n) ==
    {None} \cup {StrVal(s) : s \in UNION {StringsOfLen(m) : m \in 0..n}}

\* None and a choice of the dropdown.
DropdownInputs == {None} \cup Choices

\* None, 0 and the slider's values up to n.
IntegerSliderInputs(n) == {None, IntVal(0)} \cup {IntVal(i) : i \in SliderMin..n}

\* The engine sets an INPUT/PROPERTY parameter.
SetParameterValue(param, value) ==
    /\ parameter_values' = [parameter_values EXCEPT ![param] = value]
    /\ last_call' = "set_parameter_value"
    /\ returned' = None
    /\ UNCHANGED <<name, parameter_output_values, clicked>>

---------------------------------------------------------------------------
(* The button handler.                                                     *)

\* What datetime.now() returns in the model.
Datetimes ==
    {[year |-> 2024, month |-> 2, day |-> 4,
      hour |-> 14, minute |-> 30, second |-> s] : s \in 0..MaxClock}

Digit(d) == <<"0", "1", "2", "3", "4", "5", "6", "7", "8", "9">>[d + 1]

\* A number as zero-padded decimal digits: %Y is four wide, the others two.
RECURSIVE Padded(_, _)
Padded(n, width) ==
    IF width = 0 THEN <<>>
    ELSE Append(Padded(n \div 10, width - 1), Digit(n % 10))

\* dt.strftime("%Y-%m-%d %H:%M:%S")
Strftime(dt) ==
    Padded(dt.year, 4) \o <<"-">> \o Padded(dt.month, 2) \o <<"-">>
        \o Padded(dt.day, 2) \o <<" ">> \o Padded(dt.hour, 2) \o <<":">>
        \o Padded(dt.minute, 2) \o <<":">> \o Padded(dt.second, 2)

\* The mutant of UpdateDatetime: the timestamp is written as an output too.
UpdateDatetimeAndOutput(now) ==
    /\ parameter_values' =
           [parameter_values EXCEPT !["datetime_display"] = StrVal(Strftime(now))]
    /\ parameter_output_values' =
           [k \in DOMAIN parameter_output_values \cup {"datetime_display"} |->
               IF k = "datetime_display" THEN StrVal(Strftime(now))
               ELSE parameter_output_values[k]]
    /\ last_call' = "_update_datetime"
    /\ returned' = None
    /\ clicked' = TRUE
    /\ UNCHANGED name

\* _update_datetime(button, button_payload), with datetime.now() == now.
UpdateDatetime(now) ==
    /\ parameter_values' =
           [parameter_values EXCEPT !["datetime_display"] = StrVal(Strftime(now))]
    /\ last_call' = "_update_datetime"
    /\ returned' = None
    /\ clicked' = TRUE
    /\ UNCHANGED <<name, parameter_output_values>>

---------------------------------------------------------------------------
(* process()                                                               *)

\* " ".join(reversed(str(free_text).split()))
ReversedWords(free_text) == Join(<<" ">>, Reversed(Split(PyStr(free_text))))

\* round(random.uniform(0, float(integer_slider)), 3), random.random() == k/RandomScale.
RandomFloat(integer_slider, k) ==
    Round3(Uniform(FloatVal(0, 1), PyFloat(integer_slider), k))

\* The body of process() after its three reads, with random.random() ==
\* k/RandomScale.  float() raises on a value that is no number, after the
\* first two outputs are written.
WriteOutputs(k, free_text, dropdown, integer_slider) ==
    LET out1 == DictSet(parameter_output_values, "reversed_text",
                        StrVal(ReversedWords(free_text)))
        out2 == DictSet(out1, "dropdown", dropdown)
    IN  /\ IF CanFloat(integer_slider)
           THEN /\ parameter_output_values' =
                       DictSet(out2, "random_float", RandomFloat(integer_slider, k))
                /\ returned' = None
           ELSE /\ parameter_output_values' = out2
                /\ returned' = TypeError
        /\ last_call' = "process"
        /\ UNCHANGED <<name, parameter_values, clicked>>

\* The mutant of Process: the dropdown read falls back like the other two.
ProcessDropdownFallback(k) ==
    WriteOutputs(k,
                 Or(parameter_values["free_text"], StrVal(<<>>)),
                 Or(parameter_values["dropdown"], DefaultDropdown),
                 Or(parameter_values["integer_slider"], IntVal(0)))

\* process(): the three reads, then the body.
Process(k) ==
    WriteOutputs(k,
                 Or(parameter_values["free_text"], StrVal(<<>>)),
                 parameter_values["dropdown"],
                 Or(parameter_values["integer_slider"], IntVal(0)))

---------------------------------------------------------------------------
(* validate_before_workflow_run()                                          *)

\* ValueError(f"The '{self.name}' node's 'free_text' parameter is empty.")
EmptyFreeTextError ==
    [type |-> "ValueError",
     message |-> <<"The '", name, "' node's '", "free_text",
                   "' parameter is empty.">>]

\* The mutant of ValidateBeforeWorkflowRun: an empty free_text is reported and
\* reset to its default.
ValidateAndRepair ==
    LET free_text_value == parameter_values["free_text"]
    IN  /\ returned' = IF free_text_value \in {None, StrVal(<<>>)}
                       THEN ListVal(<<EmptyFreeTextError>>)
                       ELSE None
        /\ parameter_values' =
               IF free_text_value \in {None, StrVal(<<>>)}
               THEN [parameter_values EXCEPT !["free_text"] = DefaultFreeText]
               ELSE parameter_values
        /\ last_call' = "validate_before_workflow_run"
        /\ UNCHANGED <<name, parameter_output_values, clicked>>

\* validate_before_workflow_run(): `errors if errors else None` is
\* `errors or None`.
ValidateBeforeWorkflowRun ==
    LET free_text_value == parameter_values["free_text"]
        errors == IF ~Truthy(free_text_value)
                  THEN <<EmptyFreeTextError>>
                  ELSE <<>>
    IN  /\ returned' = Or(ListVal(errors), None)
        /\ last_call' = "validate_before_workflow_run"
        /\ UNCHANGED <<name, parameter_values, parameter_output_values, clicked>>

---------------------------------------------------------------------------
(* The specifications.                                                     *)

\* The full life cycle: the engine sets parameters, clicks the button, runs
\* the validation and runs the node, in any order.
Next ==
    \/ \E v \in FreeTextInputs(MaxShortText) : SetParameterValue("free_text", v)
    \/ \E v \in DropdownInputs : SetParameterValue("dropdown", v)
    \/ \E v \in IntegerSliderInputs(MaxSliderInput) :
           SetParameterValue("integer_slider", v)
    \/ \E now \in Datetimes : UpdateDatetime(now)
    \/ \E k \in RandomDraws(DrawSteps) : Process(k)
    \/ ValidateBeforeWorkflowRun

Spec == Init /\ [][Next]_vars

\* The word reversal alone: the engine has entered some text of at most
\* MaxText characters into a fresh node, and runs the node.
InitText ==
    /\ name \in NodeNames
    /\ \E v \in FreeTextInputs(MaxText) :
           parameter_values =
               [free_text |-> v,
                dropdown |-> DefaultDropdown,
                integer_slider |-> DefaultIntegerSlider,
                datetime_display |-> DefaultDatetimeDisplay]
    /\ parameter_output_values = [k \in {} |-> None]
    /\ last_call = "set_parameter_value"
    /\ returned = None
    /\ clicked = FALSE

NextText == \E k \in RandomDraws(DrawSteps) : Process(k)

SpecText == InitText /\ [][NextText]_vars

\* The life cycle of the slider: integer_slider takes every value of its range.
NextSlider ==
    \/ \E v \in IntegerSliderInputs(SliderMax) :
           SetParameterValue("integer_slider", v)
    \/ \E k \in RandomDraws(FineDrawSteps) : Process(k)

SpecSlider == Init /\ [][NextSlider]_vars

---------------------------------------------------------------------------
(* The claims.                                                             *)

FreeText == parameter_values["free_text"]
IntegerSlider == parameter_values["integer_slider"]
Written == DOMAIN parameter_output_values

\* The values of the three parameters the engine sets are their defaults.
AtDefaults ==
    /\ parameter_values["free_text"] = DefaultFreeText
    /\ parameter_values["dropdown"] = DefaultDropdown
    /\ parameter_values["integer_slider"] = DefaultIntegerSlider

\* C1: validate_before_workflow_run() returns a list of exactly one ValueError,
\* whose message names the node and 'free_text', when free_text is None or "",
\* and returns None otherwise, whatever ran before it.
C1_ValidateReportsEmptyFreeText ==
    last_call = "validate_before_workflow_run" =>
        IF FreeText = None \/ FreeText = StrVal(<<>>)
        THEN /\ returned.type = "list"
             /\ Len(returned.items) = 1
             /\ returned.items[1].type = "ValueError"
             /\ returned.items[1].message[2] = name
             /\ returned.items[1].message[4] = "free_text"
        ELSE returned = None

\* C1's case: the validation reports an empty free_text on a node that has
\* been run and whose button has been clicked.
C1_Witness ==
    /\ last_call = "validate_before_workflow_run"
    /\ FreeText = StrVal(<<>>)
    /\ returned.type = "list"
    /\ Written = OutputKeys
    /\ clicked

\* A word of s: a longest run of characters that are no separators.
IsWord(s, i, j) ==
    /\ 1 <= i /\ i <= j /\ j <= Len(s)
    /\ \A m \in i..j : s[m] \notin Whitespace
    /\ i = 1 \/ s[i - 1] \in Whitespace
    /\ j = Len(s) \/ s[j + 1] \in Whitespace

WordStarts(s) == {i \in 1..Len(s) : \E j \in i..Len(s) : IsWord(s, i, j)}

\* The words of s, in the order they stand in s.
WordsOf(s) ==
    [n \in 1..Cardinality(WordStarts(s)) |->
        LET i == CHOOSE x \in WordStarts(s) :
                     Cardinality({y \in WordStarts(s) : y < x}) = n - 1
            j == CHOOSE y \in i..Len(s) : IsWord(s, i, y)
        IN  SubSeq(s, i, j)]

\* The text process() reverses: the current free_text, None read as "".
TextRead == IF FreeText = None THEN <<>> ELSE FreeText.val

\* C2: after process(), reversed_text holds the words of free_text in reverse
\* order, as many as free_text has, separated by one space each, with no
\* separator before the first or after the last.
C2_ReversedTextIsWordsReversed ==
    last_call = "process" =>
        /\ "reversed_text" \in Written
        /\ parameter_output_values["reversed_text"].type = "str"
        /\ LET out == parameter_output_values["reversed_text"].val
               ws == WordsOf(TextRead)
               n == Len(ws)
           IN  /\ Len(WordsOf(out)) = n
               /\ \A m \in 1..n : WordsOf(out)[m] = ws[n + 1 - m]
               /\ \A m \in 1..Len(out) : out[m] \in Whitespace => out[m] = " "
               /\ \A m \in 1..Len(out) :
                      out[m] = " " => /\ m > 1 /\ m < Len(out)
                                      /\ out[m + 1] # " "

\* C2's case: a text of two different words, separated by a line break and
\* with a space before the first, has been reversed.
C2_Witness ==
    /\ last_call = "process"
    /\ FreeText = StrVal(<<" ", "a", "a", "\n", "a">>)
    /\ parameter_output_values["reversed_text"] = StrVal(<<"a", " ", "a", "a">>)

\* C3: after process() with integer_slider = n in the slider's range,
\* 0 <= random_float <= n, the rounding to thousandths included.
C3_RandomFloatWithinSlider ==
    (/\ last_call = "process"
     /\ IntegerSlider.type = "int"
     /\ IntegerSlider.val \in SliderMin..SliderMax) =>
        /\ "random_float" \in Written
        /\ parameter_output_values["random_float"].type = "float"
        /\ LET x == parameter_output_values["random_float"]
           IN  /\ x.den > 0
               /\ 0 <= x.num
               /\ x.num <= IntegerSlider.val * x.den

\* C3's case: with the slider at its maximum a draw just below 1 rounds up to
\* the slider's value itself.
C3_Witness ==
    /\ last_call = "process"
    /\ IntegerSlider = IntVal(SliderMax)
    /\ parameter_output_values["random_float"] = FloatVal(SliderMax * 1000, 1000)

\* C4: after process(), the output 'dropdown' is the dropdown parameter's
\* value, None included.
C4_DropdownPassedThrough ==
    last_call = "process" =>
        /\ "dropdown" \in Written
        /\ parameter_output_values["dropdown"] = parameter_values["dropdown"]

\* C4's case: process() has passed through a dropdown of None.
C4_Witness ==
    /\ last_call = "process"
    /\ parameter_values["dropdown"] = None
    /\ parameter_output_values["dropdown"] = None

\* C5: after process(), parameter_output_values holds the current free_text
\* under the key 'free_text'.
C5_FreeTextPassedThrough ==
    last_call = "process" =>
        /\ "free_text" \in Written
        /\ parameter_output_values["free_text"] = FreeText

\* C6: the defaults satisfy their own constraints, and on a node whose
\* parameters are at their defaults the validation returns None and process()
\* returns with its three outputs written.
C6_FreshNodeIsUsable ==
    AtDefaults =>
        /\ FreeText.type = "str" /\ FreeText.val # <<>>
        /\ parameter_values["dropdown"] \in Choices
        /\ IntegerSlider.type = "int"
        /\ IntegerSlider.val \in SliderMin..SliderMax
        /\ last_call = "validate_before_workflow_run" => returned = None
        /\ last_call = "process" => returned = None /\ Written = OutputKeys

\* C6's case: a node whose parameters were never set has been run.
C6_Witness ==
    /\ last_call = "process"
    /\ AtDefaults
    /\ returned = None
    /\ Written = OutputKeys
    /\ parameter_output_values["reversed_text"] =
           StrVal(<<"n", "o", "d", "e", " ", "e", "x", "a", "m", "p", "l", "e",
                    " ", "t", "h", "e", " ", "f", "r", "o", "m", " ",
                    "h", "e", "l", "l", "o">>)

\* C7: process() returns with its three outputs written whatever the values;
\* a free_text of None or "" gives reversed_text "", an integer_slider of
\* None or 0 gives random_float 0.0.
C7_ProcessToleratesMissingValues ==
    last_call = "process" =>
        /\ returned = None
        /\ Written = OutputKeys
        /\ FreeText \in {None, StrVal(<<>>)} =>
               parameter_output_values["reversed_text"] = StrVal(<<>>)
        /\ IntegerSlider \in {None, IntVal(0)} =>
               /\ parameter_output_values["random_float"].type = "float"
               /\ parameter_output_values["random_float"].num = 0

\* C7's case: process() has run with free_text and integer_slider both None.
C7_Witness ==
    /\ last_call = "process"
    /\ FreeText = None
    /\ IntegerSlider = None
    /\ returned = None
    /\ parameter_output_values["reversed_text"] = StrVal(<<>>)
    /\ parameter_output_values["random_float"].num = 0

\* C8: datetime_display is its default until the button handler first runs;
\* only the handler changes it, and the handler changes nothing else.
C8_DatetimeWrittenOnlyByHandler ==
    [][/\ ~clicked => parameter_values["datetime_display"] = DefaultDatetimeDisplay
       /\ ~clicked' => parameter_values'["datetime_display"] = DefaultDatetimeDisplay
       /\ parameter_values'["datetime_display"] # parameter_values["datetime_display"]
              => last_call' = "_update_datetime"
       /\ last_call' = "_update_datetime" =>
              /\ \A p \in {"free_text", "dropdown", "integer_slider"} :
                     parameter_values'[p] = parameter_values[p]
              /\ parameter_output_values' = parameter_output_values
              /\ name' = name]_vars

\* C8's case: the handler has written a timestamp, and a later process() on
\* the written outputs has left it there.
C8_Witness ==
    /\ clicked
    /\ last_call = "process"
    /\ Written = OutputKeys
    /\ parameter_values["datetime_display"] =
           StrVal(<<"2", "0", "2", "4", "-", "0", "2", "-", "0", "4", " ",
                    "1", "4", ":", "3", "0", ":", "0", "1">>)

\* C9: process() and the validation change no parameter value; process()
\* writes no output entry but its three, the validation writes nothing, and
\* two validations in a row return the same.
C9_ProcessAndValidateFrame ==
    [][/\ last_call' \in {"process", "validate_before_workflow_run"} =>
              parameter_values' = parameter_values /\ name' = name
       /\ last_call' = "process" =>
              \A key \in (DOMAIN parameter_output_values'
                              \cup DOMAIN parameter_output_values) \ OutputKeys :
                  /\ key \in DOMAIN parameter_output_values'
                  /\ key \in DOMAIN parameter_output_values
                  /\ parameter_output_values'[key] = parameter_output_values[key]
       /\ last_call' = "validate_before_workflow_run" =>
              parameter_output_values' = parameter_output_values
       /\ (/\ last_call = "validate_before_workflow_run"
           /\ last_call' = "validate_before_workflow_run") =>
              returned' = returned]_vars

\* C9's case: the validation has reported an empty free_text on a node with
\* written outputs, and the free_text is still empty.
C9_Witness ==
    /\ last_call = "validate_before_workflow_run"
    /\ returned.type = "list"
    /\ FreeText = None
    /\ Written = OutputKeys

\* The outputs process() writes from the current parameter values on draw k.
OutputsOf(k) ==
    [key \in OutputKeys |->
        CASE key = "reversed_text" ->
                 StrVal(ReversedWords(Or(FreeText, StrVal(<<>>))))
          [] key = "dropdown" -> parameter_values["dropdown"]
          [] key = "random_float" -> RandomFloat(Or(IntegerSlider, IntVal(0)), k)]

\* C10: the three outputs are all unwritten or all written; right after a
\* process() call they are what it computed from the parameter values (which
\* that call left as they were), and every other operation leaves them as
\* they are.
C10_OutputsAreThoseOfLastProcess ==
    [][/\ Written = {} \/ Written = OutputKeys
       /\ last_call = "process" =>
              \E k \in RandomDraws(DrawSteps) : parameter_output_values = OutputsOf(k)
       /\ last_call' # "process" =>
              parameter_output_values' = parameter_output_values]_vars

\* C10's case: after a process() call the engine has changed all three
\* parameters, and every output is stale.
C10_Witness ==
    /\ last_call = "set_parameter_value"
    /\ Written = OutputKeys
    /\ parameter_output_values["dropdown"] # parameter_values["dropdown"]
    /\ \A k \in RandomDraws(DrawSteps) :
           /\ parameter_output_values["reversed_text"] # OutputsOf(k)["reversed_text"]
           /\ parameter_output_values["random_float"] # OutputsOf(k)["random_float"]

=============================================================================
